---------------------------- MODULE Spec2Model ----------------------------
(***************************************************************************)
(* A model of rflib (antennas.py, conversions.py, dielectrics.py,          *)
(* propagation.py): a library of scalar electromagnetics formulas.         *)
(*                                                                         *)
(* The library has one piece of state, numpy's error configuration, set    *)
(* at import by np.seterr(divide='raise', invalid='raise').  Under Spec     *)
(* the calls are made one at a time from the importing thread; under       *)
(* SpecThreads they are made from two threads, of which only the importing *)
(* one computes under that configuration.                                  *)
(* Under Spec every public function is one action: it draws its            *)
(* arguments from small sets, records them in `call` and records in        *)
(* `outcome` what the caller observes: a returned value, or the class and  *)
(* message of the exception that leaves the function, and whether          *)
(* warnings.warn was called on the way.                                    *)
(*                                                                         *)
(* Numbers.  Python floats are modelled by exact rationals <<n, d>>.       *)
(* Every value carries nothing but its rational; whether an operation is   *)
(* carried out by Python (float / float: ZeroDivisionError on a zero       *)
(* divisor) or by numpy (np.float64 operand or ufunc: FloatingPointError   *)
(* under divide='raise' / invalid='raise') is decided per operation from   *)
(* the operand types in the source and is stated at each use.  The two     *)
(* fixed factors of nepers_to_db and db_to_nepers are exact decimals.      *)
(*                                                                         *)
(* TLC's integers are 32 bits wide, so the physical constants are scaled   *)
(* stand-ins of the same sign: Giga (1e9), SpeedOfLight (299792458),       *)
(* Epsilon0, Mu0, Pi.  Signs, zeros, error classes and the algebraic form  *)
(* of the results do not depend on their magnitudes.                       *)
(***************************************************************************)
EXTENDS Integers, Sequences, FiniteSets, TLC

VARIABLES call, outcome, np_errstate

vars == <<call, outcome, np_errstate>>

---------------------------------------------------------------------------
(* Bounds of the input sets. *)
MaxFreq == 2
MaxNum == 1
MaxExp == 1
MaxLayers == 2

---------------------------------------------------------------------------
(* Exact rational arithmetic standing for float arithmetic. *)
RECURSIVE Gcd(_, _)
Gcd(a, b) == IF b = 0 THEN a ELSE Gcd(b, a % b)

AbsInt(n) == IF n < 0 THEN -n ELSE n

R(n, d) ==
    LET g == Gcd(AbsInt(n), AbsInt(d))
        s == IF d < 0 THEN -1 ELSE 1
    IN  <<(s * n) \div g, (s * d) \div g>>

RInt(n) == <<n, 1>>
Zero == RInt(0)
One == RInt(1)

RAdd(a, b) == R(a[1] * b[2] + b[1] * a[2], a[2] * b[2])
RNeg(a) == <<-a[1], a[2]>>
RSub(a, b) == RAdd(a, RNeg(b))
RMul(a, b) == R(a[1] * b[1], a[2] * b[2])
\* Only applied to a nonzero divisor: every use is guarded by the zero test
\* that stands for the exception Python or numpy raises.
RDiv(a, b) == R(a[1] * b[2], a[2] * b[1])
RSq(a) == RMul(a, a)
RAbs(a) == <<AbsInt(a[1]), a[2]>>
RIsZero(a) == a[1] = 0
RIsNeg(a) == a[1] < 0
RLt(a, b) == a[1] * b[2] < b[1] * a[2]
RLe(a, b) == a[1] * b[2] <= b[1] * a[2]

RECURSIVE IntPow(_, _)
IntPow(b, k) == IF k = 0 THEN 1 ELSE b * IntPow(b, k - 1)

\* 10 ** k for an integer k.
Pow10(k) == IF k >= 0 THEN <<IntPow(10, k), 1>> ELSE <<1, IntPow(10, -k)>>

\* np.float_power(10, q): the arguments the model draws make q an integer.
FloatPower10(q) == Pow10(q[1] \div q[2])

\* np.log10(v) for v > 0: the model's magnitudes are exact powers of ten.
Log10(v) == RInt(CHOOSE k \in -9..9 : Pow10(k) = v)

---------------------------------------------------------------------------
(* Strings are sequences of characters, so that str.lower() is computed. *)
UpperCase == <<"A","B","C","D","E","F","G","H","I","J","K","L","M",
               "N","O","P","Q","R","S","T","U","V","W","X","Y","Z">>
LowerCase == <<"a","b","c","d","e","f","g","h","i","j","k","l","m",
               "n","o","p","q","r","s","t","u","v","w","x","y","z">>

LowerChar(c) ==
    IF \E i \in DOMAIN UpperCase : UpperCase[i] = c
    THEN LowerCase[CHOOSE i \in DOMAIN UpperCase : UpperCase[i] = c]
    ELSE c

Lower(s) == [i \in DOMAIN s |-> LowerChar(s[i])]

---------------------------------------------------------------------------
(* What a caller observes of one call. *)
\* form tells how to read val and val2:
\*   "real"    the number val
\*   "sqrt"    the non-negative square root of val
\*   "negsqrt" minus the square root of val
\*   "complex" val + j * val2
\*   "pair"    the tuple (sqrt of val, sqrt of val2)
\*   "negpair" the tuple (-sqrt of val, -sqrt of val2)
\*   "inf", "nan"  numpy's non-finite results when errors are not raised
\*   "decimal" the exact decimal val (nepers_to_db, db_to_nepers)
Return(form, v, w, warned) ==
    [kind |-> "ret", exc |-> "", msg |-> "", form |-> form,
     val |-> v, val2 |-> w, warned |-> warned]

Raise(exc, msg, warned) ==
    [kind |-> "exc", exc |-> exc, msg |-> msg, form |-> "",
     val |-> Zero, val2 |-> Zero, warned |-> warned]

NoOutcome ==
    [kind |-> "none", exc |-> "", msg |-> "", form |-> "",
     val |-> Zero, val2 |-> Zero, warned |-> FALSE]

\* np.seterr(divide='raise', invalid='raise') at import of each submodule.
SetErr == [divide |-> "raise", invalid |-> "raise"]

---------------------------------------------------------------------------
(* Scaled physical constants (see the header). *)
Giga == RInt(10)
SpeedOfLight == RInt(3)
Pi == R(22, 7)
Epsilon0 == R(1, 100)
Mu0 == R(1, 10)

---------------------------------------------------------------------------
(* The selector strings the functions compare against. *)
S_dbm == <<"d","b","m">>
S_w == <<"w">>
S_cheeky == <<"c","h","e","e","k","y">>
S_normal == <<"n","o","r","m","a","l">>
S_monopole == <<"m","o","n","o","p","o","l","e">>
S_dipole == <<"d","i","p","o","l","e">>
S_array == <<"a","r","r","a","y">>
S_power == <<"p","o","w","e","r">>
S_amplitude == <<"a","m","p","l","i","t","u","d","e">>

ZDE == "ZeroDivisionError"
FPE == "FloatingPointError"

\* The message of numpy's FloatingPointError for each kind of error.
NpMsg(kind) ==
    IF kind = "divide"
    THEN "divide by zero encountered"
    ELSE "invalid value encountered"

\* np.sqrt of a negative number: FloatingPointError under invalid='raise',
\* NaN otherwise.  `onnan` is what the caller does with the NaN.
SqrtInvalid(err, onnan, warned) ==
    IF err.invalid = "raise"
    THEN Raise(FPE, NpMsg("invalid"), warned)
    ELSE onnan

---------------------------------------------------------------------------
(* antennas.py *)

\* hertzian_dipole_current that raises its RuntimeWarning instead of
\* passing it to warnings.warn.
HertzianDipoleCurrentWarningRaised(freq, power, length, units, err) ==
    LET u == Lower(units) IN
    IF u # S_dbm /\ u # S_w
    THEN Raise("RuntimeError", "Unsupported power units", FALSE)
    ELSE IF u = S_w /\ RIsZero(power)
    THEN Raise(ZDE, "Power in absolute units must be > 0", FALSE)
    ELSE
      LET p == IF u = S_dbm
               THEN RDiv(FloatPower10(RDiv(power, RInt(10))), RInt(1000))
               ELSE power
          hz == RMul(freq, Giga)
      IN
      IF RIsZero(hz)
      THEN Raise(ZDE, "Frequency must be > 0", FALSE)
      ELSE
        LET wavelength == RDiv(SpeedOfLight, hz)
            geom == RMul(RMul(RInt(40), RSq(Pi)),
                         RSq(RDiv(length, wavelength)))
        IN
        IF RLt(RDiv(wavelength, RInt(10)), length)
        THEN Raise("RuntimeWarning", "Dipole is not electrically small", TRUE)
        ELSE IF RIsZero(geom)
        THEN Raise(ZDE, "Dipole length must be > 0", FALSE)
        ELSE IF RIsNeg(RDiv(p, geom))
        THEN Raise(FPE, NpMsg("invalid"), FALSE)
        ELSE Return("sqrt", RDiv(p, geom), Zero, FALSE)

\* hertzian_dipole_current(freq, power, length, units)
HertzianDipoleCurrent(freq, power, length, units, err) ==
    LET u == Lower(units) IN
    IF u # S_dbm /\ u # S_w
    THEN Raise("RuntimeError", "Unsupported power units", FALSE)
    ELSE IF u = S_w /\ RIsZero(power)
    THEN Raise(ZDE, "Power in absolute units must be > 0", FALSE)
    ELSE
      LET \* dBm: np.float_power(10, power / 10) / 1e3, an np.float64
          p == IF u = S_dbm
               THEN RDiv(FloatPower10(RDiv(power, RInt(10))), RInt(1000))
               ELSE power
          hz == RMul(freq, Giga)
      IN
      \* speed_of_light / freq on Python floats
      IF RIsZero(hz)
      THEN Raise(ZDE, "Frequency must be > 0", FALSE)
      ELSE
        LET wavelength == RDiv(SpeedOfLight, hz)
            \* warnings.warn(...) when length > wavelength / 10
            warned == RLt(RDiv(wavelength, RInt(10)), length)
            \* 40 * pi**2 * (length / wavelength)**2, an np.float64
            geom == RMul(RMul(RInt(40), RSq(Pi)),
                         RSq(RDiv(length, wavelength)))
            nancheck == Raise("RuntimeError",
                              "Dipole current somehow ended negative", warned)
        IN
        IF RIsZero(geom)
        THEN \* power / 0.0 in numpy, power nonzero: divide by zero
             IF err.divide = "raise"
             THEN Raise(ZDE, "Dipole length must be > 0", warned)
             ELSE IF RIsNeg(p)
             THEN SqrtInvalid(err, nancheck, warned)
             ELSE Return("inf", Zero, Zero, warned)
        ELSE
          LET current2 == RDiv(p, geom) IN
          \* np.sqrt(dipole_current), outside every try block
          IF RIsNeg(current2)
          THEN SqrtInvalid(err, nancheck, warned)
          ELSE Return("sqrt", current2, Zero, warned)

\* max_antenna_separation_full that floors a negative separation at zero.
MaxAntennaSeparationFullClamped(freq, radius, mode) ==
    LET hz == RMul(freq, Giga) IN
    IF RIsZero(hz)
    THEN Raise(ZDE, "Frequency must be > 0", FALSE)
    ELSE
      LET wavelength == RDiv(SpeedOfLight, hz)
          r == IF Lower(mode) = S_cheeky
               THEN RDiv(radius, R(6, 10))
               ELSE radius
          separation == RDiv(RSub(RMul(RInt(16), RSq(r)), RSq(wavelength)),
                             RMul(RInt(4), wavelength))
      IN  Return("real", IF RIsNeg(separation) THEN Zero ELSE separation,
                 Zero, FALSE)

\* max_antenna_separation_full(freq, radius, mode)
MaxAntennaSeparationFull(freq, radius, mode) ==
    LET hz == RMul(freq, Giga) IN
    IF RIsZero(hz)
    THEN Raise(ZDE, "Frequency must be > 0", FALSE)
    ELSE
      LET wavelength == RDiv(SpeedOfLight, hz)
          r == IF Lower(mode) = S_cheeky
               THEN RDiv(radius, R(6, 10))
               ELSE radius
          separation == RSub(RMul(RInt(16), RSq(r)), RSq(wavelength))
      IN  Return("real", RDiv(separation, RMul(RInt(4), wavelength)),
                 Zero, FALSE)

\* max_antenna_separation_approx that ignores the 'cheeky' mode.
MaxAntennaSeparationApproxAlwaysNormal(freq, radius, mode) ==
    LET hz == RMul(freq, Giga) IN
    IF RIsZero(hz)
    THEN Raise(ZDE, "Frequency must be > 0", FALSE)
    ELSE
      LET wavelength == RDiv(SpeedOfLight, hz)
      IN  Return("real", RDiv(RMul(RInt(4), RSq(radius)), wavelength),
                 Zero, FALSE)

\* max_antenna_separation_approx(freq, radius, mode)
MaxAntennaSeparationApprox(freq, radius, mode) ==
    LET hz == RMul(freq, Giga) IN
    IF RIsZero(hz)
    THEN Raise(ZDE, "Frequency must be > 0", FALSE)
    ELSE
      LET wavelength == RDiv(SpeedOfLight, hz)
          r == IF Lower(mode) = S_cheeky
               THEN RDiv(radius, R(6, 10))
               ELSE radius
      IN  Return("real", RDiv(RMul(RInt(4), RSq(r)), wavelength),
                 Zero, FALSE)

\* fresnel_zone_radius(freq, distance_1, distance_2)
FresnelZoneRadius(freq, distance_1, distance_2, err) ==
    LET hz == RMul(freq, Giga) IN
    IF RIsZero(hz)
    THEN Raise(ZDE, "Frequency must be > 0", FALSE)
    ELSE
      \* radius /= (distance_1 + distance_2) on Python floats
      IF RIsZero(RAdd(distance_1, distance_2))
      THEN Raise(ZDE, "Distances must be > 0", FALSE)
      ELSE
        LET wavelength == RDiv(SpeedOfLight, hz)
            radius2 == RDiv(RMul(RMul(wavelength, distance_1), distance_2),
                            RAdd(distance_1, distance_2))
        IN
        \* np.sqrt(radius); the function has no NaN check
        IF RIsNeg(radius2)
        THEN SqrtInvalid(err, Return("nan", Zero, Zero, FALSE), FALSE)
        ELSE Return("sqrt", radius2, Zero, FALSE)

\* far_field_distance(freq, antenna_dimension, antenna_type)
FarFieldDistance(freq, antenna_dimension, antenna_type) ==
    LET hz == RMul(freq, Giga) IN
    IF RIsZero(hz)
    THEN Raise(ZDE, "Frequency must be > 0", FALSE)
    ELSE
      LET wavelength == RDiv(SpeedOfLight, hz)
          t == Lower(antenna_type)
          dimension ==
            IF t = S_monopole THEN RDiv(wavelength, RInt(4))
            ELSE IF t = S_dipole THEN RDiv(wavelength, RInt(2))
            ELSE IF t = S_array
            THEN RMul(antenna_dimension, RDiv(wavelength, RInt(2)))
            ELSE antenna_dimension
      IN  Return("real", RDiv(RMul(RInt(2), RSq(dimension)), wavelength),
                 Zero, FALSE)

---------------------------------------------------------------------------
(* conversions.py *)

\* Exact decimal arithmetic for the two fixed scale factors, whose nine
\* decimal places do not fit TLC's integers: a magnitude is a sequence of
\* limbs in base 1000, least significant first, and `scale` counts the limbs
\* behind the decimal point.
Base == 1000

RECURSIVE MulLimbs(_, _, _)
MulLimbs(a, m, carry) ==
    IF a = <<>>
    THEN IF carry = 0 THEN <<>> ELSE <<carry>>
    ELSE LET t == Head(a) * m + carry
         IN  <<t % Base>> \o MulLimbs(Tail(a), m, t \div Base)

RECURSIVE AddLimbs(_, _, _)
AddLimbs(a, b, carry) ==
    IF a = <<>> /\ b = <<>>
    THEN IF carry = 0 THEN <<>> ELSE <<carry>>
    ELSE LET x == IF a = <<>> THEN 0 ELSE Head(a)
             y == IF b = <<>> THEN 0 ELSE Head(b)
             t == x + y + carry
         IN  <<t % Base>> \o AddLimbs(IF a = <<>> THEN a ELSE Tail(a),
                                      IF b = <<>> THEN b ELSE Tail(b),
                                      t \div Base)

RECURSIVE BigMul(_, _)
BigMul(a, b) ==
    IF b = <<>>
    THEN <<>>
    ELSE AddLimbs(MulLimbs(a, Head(b), 0), <<0>> \o BigMul(a, Tail(b)), 0)

RECURSIVE StripHigh(_)
StripHigh(s) ==
    IF s # <<>> /\ s[Len(s)] = 0
    THEN StripHigh(SubSeq(s, 1, Len(s) - 1))
    ELSE s

\* The normal form of (-1)^neg * mag / Base^scale.
RECURSIVE Dec(_, _, _)
Dec(neg, mag, scale) ==
    LET m == StripHigh(mag)
    IN  IF m = <<>>
        THEN [neg |-> FALSE, mag |-> <<>>, scale |-> 0]
        ELSE IF scale > 0 /\ Head(m) = 0
        THEN Dec(neg, Tail(m), scale - 1)
        ELSE [neg |-> neg, mag |-> m, scale |-> scale]

\* float * float
DecMul(a, b) ==
    Dec(a.neg # b.neg, BigMul(a.mag, b.mag), a.scale + b.scale)

DecInt(n) == Dec(n < 0, <<AbsInt(n)>>, 0)
DecIsZero(a) == a.mag = <<>>

\* 8.685889638 and 0.115129255
NepersToDbFactor == Dec(FALSE, <<638, 889, 685, 8>>, 3)
DbToNepersFactor == Dec(FALSE, <<255, 129, 115>>, 3)

\* nepers_to_db with the factor cut to six decimal places.
NepersToDbShortFactor(nepers) ==
    Return("decimal", DecMul(nepers, Dec(FALSE, <<889, 685, 8>>, 2)), Zero,
           FALSE)

\* nepers_to_db(nepers)
NepersToDb(nepers) ==
    Return("decimal", DecMul(nepers, NepersToDbFactor), Zero, FALSE)

\* db_to_nepers(db)
DbToNepers(db) ==
    Return("decimal", DecMul(db, DbToNepersFactor), Zero, FALSE)

\* db_to_mag whose last branch computes instead of raising.
DbToMagDefaulting(value, mode) ==
    IF Lower(mode) = S_power
    THEN Return("real", FloatPower10(RDiv(value, RInt(10))), Zero, FALSE)
    ELSE Return("real", FloatPower10(RDiv(value, RInt(20))), Zero, FALSE)

\* db_to_mag(value, mode)
DbToMag(value, mode) ==
    LET m == Lower(mode) IN
    IF m = S_power
    THEN Return("real", FloatPower10(RDiv(value, RInt(10))), Zero, FALSE)
    ELSE IF m = S_amplitude
    THEN Return("real", FloatPower10(RDiv(value, RInt(20))), Zero, FALSE)
    ELSE Raise("ValueError", "Mode must be power or amplitude", FALSE)

\* mag_to_db without its try block around np.log10.
MagToDbUncaught(value, mode, err) ==
    LET m == Lower(mode) IN
    IF m # S_power /\ m # S_amplitude
    THEN Raise("ValueError", "Mode must be power or amplitude", FALSE)
    ELSE
      LET mag == IF m = S_power THEN RInt(10) ELSE RInt(20) IN
      IF RIsZero(value)
      THEN IF err.divide = "raise"
           THEN Raise(FPE, NpMsg("divide"), FALSE)
           ELSE Return("inf", Zero, Zero, FALSE)
      ELSE IF RIsNeg(value)
      THEN IF err.invalid = "raise"
           THEN Raise(FPE, NpMsg("invalid"), FALSE)
           ELSE Return("nan", Zero, Zero, FALSE)
      ELSE Return("real", RMul(mag, Log10(value)), Zero, FALSE)

\* mag_to_db(value, mode)
MagToDb(value, mode, err) ==
    LET m == Lower(mode) IN
    IF m # S_power /\ m # S_amplitude
    THEN Raise("ValueError", "Mode must be power or amplitude", FALSE)
    ELSE
      LET mag == IF m = S_power THEN RInt(10) ELSE RInt(20) IN
      \* np.log10(0): divide by zero; np.log10(negative): invalid.  The
      \* FloatingPointError is caught and a ValueError raised in its place.
      IF RIsZero(value)
      THEN IF err.divide = "raise"
           THEN Raise("ValueError", "Magnitude must be > 0", FALSE)
           ELSE Return("inf", Zero, Zero, FALSE)
      ELSE IF RIsNeg(value)
      THEN IF err.invalid = "raise"
           THEN Raise("ValueError", "Magnitude must be > 0", FALSE)
           ELSE Return("nan", Zero, Zero, FALSE)
      ELSE Return("real", RMul(mag, Log10(value)), Zero, FALSE)

---------------------------------------------------------------------------
(* dielectrics.py *)

\* np.isclose(freq, 0): abs(freq - 0) <= atol + rtol * abs(0), atol = 1e-8
IsCloseToZero(x) == RLe(RAbs(x), R(1, 100000000))

\* conductivity_to_tan_delta that tests the permittivity alone.
ConductivityToTanDeltaPermittivityOnly(freq, conductivity, real_permittivity) ==
    IF RIsNeg(real_permittivity)
    THEN Raise("ValueError",
               "The real part of the permittivity and the conductivity must be positive",
               FALSE)
    ELSE
      IF RIsZero(RMul(real_permittivity, freq))
      THEN Raise(ZDE, "Real part and frequency must be > 0", FALSE)
      ELSE Return("real",
                  RDiv(RMul(R(1797591, 100000), conductivity),
                       RMul(real_permittivity, freq)),
                  Zero, FALSE)

\* conductivity_to_tan_delta(freq, conductivity, real_permittivity)
ConductivityToTanDelta(freq, conductivity, real_permittivity) ==
    IF RIsNeg(real_permittivity) \/ RIsNeg(conductivity)
    THEN Raise("ValueError",
               "The real part of the permittivity and the conductivity must be positive",
               FALSE)
    ELSE
      \* 17.97591 * conductivity / (real_permittivity * freq), Python floats
      IF RIsZero(RMul(real_permittivity, freq))
      THEN Raise(ZDE, "Real part and frequency must be > 0", FALSE)
      ELSE Return("real",
                  RDiv(RMul(R(1797591, 100000), conductivity),
                       RMul(real_permittivity, freq)),
                  Zero, FALSE)

\* tan_delta_to_conductivity that tests the frequency before the permittivity.
TanDeltaToConductivityFrequencyFirst(freq, real_permittivity, tan_delta) ==
    IF IsCloseToZero(freq)
    THEN Raise("ValueError", "Frequency must be > 0", FALSE)
    ELSE IF RIsNeg(real_permittivity)
    THEN Raise("ValueError",
               "The real part of the permittivity must be positive", FALSE)
    ELSE Return("real",
                RMul(RMul(RMul(R(5563, 100000), real_permittivity),
                          tan_delta), freq),
                Zero, FALSE)

\* tan_delta_to_conductivity(freq, real_permittivity, tan_delta)
TanDeltaToConductivity(freq, real_permittivity, tan_delta) ==
    IF RIsNeg(real_permittivity)
    THEN Raise("ValueError",
               "The real part of the permittivity must be positive", FALSE)
    ELSE IF IsCloseToZero(freq)
    THEN Raise("ValueError", "Frequency must be > 0", FALSE)
    ELSE Return("real",
                RMul(RMul(RMul(R(5563, 100000), real_permittivity),
                          tan_delta), freq),
                Zero, FALSE)

\* complex_permittivity_to_tan_delta(real_permittivity, imag_permittivity)
ComplexPermittivityToTanDelta(real_permittivity, imag_permittivity, err) ==
    \* np.abs(imag) / np.abs(real): both operands are np.float64, so a zero
    \* divisor is numpy's error, which `except ZeroDivisionError` lets through.
    IF RIsZero(real_permittivity)
    THEN IF RIsZero(imag_permittivity)
         THEN IF err.invalid = "raise"
              THEN Raise(FPE, NpMsg("invalid"), FALSE)
              ELSE Return("nan", Zero, Zero, FALSE)
         ELSE IF err.divide = "raise"
              THEN Raise(FPE, NpMsg("divide"), FALSE)
              ELSE Return("inf", Zero, Zero, FALSE)
    ELSE Return("real",
                RDiv(RAbs(imag_permittivity), RAbs(real_permittivity)),
                Zero, FALSE)

\* imaginary_permittivity_to_conductivity(freq, imag_permittivity)
ImaginaryPermittivityToConductivity(freq, imag_permittivity) ==
    IF IsCloseToZero(freq)
    THEN Raise(ZDE, "Frequency must be > 0", FALSE)
    ELSE Return("real",
                RMul(RMul(R(5563, 100000), freq), RAbs(imag_permittivity)),
                Zero, FALSE)

\* conductivity_to_imaginary_permittivity(freq, conductivity)
ConductivityToImaginaryPermittivity(freq, conductivity) ==
    \* 17.97591 * conductivity / freq on Python floats
    IF RIsZero(freq)
    THEN Raise(ZDE, "Frequency must be > 0", FALSE)
    ELSE Return("real",
                RDiv(RMul(R(1797591, 100000), conductivity), freq),
                Zero, FALSE)

\* np.sum(thicknesses)
RECURSIVE SumSeq(_)
SumSeq(s) == IF s = <<>> THEN Zero ELSE RAdd(Head(s), SumSeq(Tail(s)))

MinInt(a, b) == IF a < b THEN a ELSE b

\* The loop over zip(epsilon_real, thicknesses), from pair i on, with the sum
\* so far in acc.  Each term divides in numpy (total is an np.float64):
\* bad names the numpy error of the first term whose divisor is zero.
RECURSIVE LayerLoop(_, _, _, _, _)
LayerLoop(epsilon_real, thicknesses, total, i, acc) ==
    IF i > MinInt(Len(epsilon_real), Len(thicknesses))
    THEN [bad |-> "", sum |-> acc]
    ELSE
      LET divisor == RMul(epsilon_real[i], total) IN
      IF RIsZero(divisor)
      THEN [bad |-> IF RIsZero(thicknesses[i]) THEN "invalid" ELSE "divide",
            sum |-> acc]
      ELSE LayerLoop(epsilon_real, thicknesses, total, i + 1,
                     RAdd(acc, RDiv(thicknesses[i], divisor)))

\* equivalent_relative_permittivity whose total thickness sums the paired
\* thicknesses only.
EquivalentRelativePermittivityPairedTotal(epsilon_real, thicknesses, err) ==
    LET pairs == MinInt(Len(epsilon_real), Len(thicknesses))
        total_thickness == SumSeq(SubSeq(thicknesses, 1, pairs))
        loop == LayerLoop(epsilon_real, thicknesses, total_thickness, 1, Zero)
    IN
    IF loop.bad # ""
    THEN IF err[loop.bad] = "raise"
         THEN Raise(FPE, NpMsg(loop.bad), FALSE)
         ELSE Return("nan", Zero, Zero, FALSE)
    ELSE IF RIsZero(loop.sum)
    THEN IF pairs = 0
         THEN Raise(ZDE, "One or more arguments evaluate to zero", FALSE)
         ELSE IF err.divide = "raise"
              THEN Raise(FPE, NpMsg("divide"), FALSE)
              ELSE Return("inf", Zero, Zero, FALSE)
    ELSE Return("real", RDiv(One, loop.sum), Zero, FALSE)

\* equivalent_relative_permittivity(epsilon_real, thicknesses)
EquivalentRelativePermittivity(epsilon_real, thicknesses, err) ==
    LET total_thickness == SumSeq(thicknesses)
        loop == LayerLoop(epsilon_real, thicknesses, total_thickness, 1, Zero)
        pairs == MinInt(Len(epsilon_real), Len(thicknesses))
    IN
    IF loop.bad # ""
    THEN \* FloatingPointError is not a ZeroDivisionError: it is not caught
         IF err[loop.bad] = "raise"
         THEN Raise(FPE, NpMsg(loop.bad), FALSE)
         ELSE \* numpy's defaults: x / 0 is an infinity with the sign of x and
              \* of the zero divisor, 0 / 0 is NaN, and the loop goes on; the
              \* sum is NaN or an infinity, and 1 / sum is NaN or 0.0
              LET degenerate(i) ==
                    RIsZero(RMul(epsilon_real[i], total_thickness))
                  sgn(x) == IF RIsNeg(x) THEN -1 ELSE 1
                  nanterm ==
                    \E i \in 1..pairs :
                      degenerate(i) /\ RIsZero(thicknesses[i])
                  infterm(s) ==
                    \E i \in 1..pairs :
                      /\ degenerate(i)
                      /\ ~RIsZero(thicknesses[i])
                      /\ sgn(thicknesses[i]) * sgn(epsilon_real[i])
                           * sgn(total_thickness) = s
              IN  IF nanterm \/ (infterm(1) /\ infterm(-1))
                  THEN Return("nan", Zero, Zero, FALSE)
                  ELSE Return("real", Zero, Zero, FALSE)
    ELSE IF RIsZero(loop.sum)
    THEN IF pairs = 0
         THEN \* no pair: 1 / 0.0 on Python floats, caught and raised again
              Raise(ZDE, "One or more arguments evaluate to zero", FALSE)
         ELSE \* 1 / np.float64(0.0)
              IF err.divide = "raise"
              THEN Raise(FPE, NpMsg("divide"), FALSE)
              ELSE Return("inf", Zero, Zero, FALSE)
    ELSE Return("real", RDiv(One, loop.sum), Zero, FALSE)

\* Complex numbers are pairs <<re, im>> of rationals.
CAdd(a, b) == <<RAdd(a[1], b[1]), RAdd(a[2], b[2])>>

\* x / (re + j im) for a real x and a nonzero divisor.
CRealDiv(x, c) ==
    LET n == RAdd(RSq(c[1]), RSq(c[2])) IN
    <<RDiv(RMul(x, c[1]), n), RNeg(RDiv(RMul(x, c[2]), n))>>

\* np.power(base, e) for the exponents the model draws: 1 - alpha in {0, 1}.
CPower(base, e) == IF RIsZero(e) THEN <<One, Zero>> ELSE base

\* cole_cole_single(freq, er_static, er_inf, cond_static, relax_time, alpha)
ColeColeSingle(freq, er_static, er_inf, cond_static, relax_time, alpha) ==
    LET ang_freq == RMul(RMul(RInt(2), Pi), RMul(freq, Giga)) IN
    \* cond_static / (1j * ang_freq * epsilon_0): Python complex division
    IF RIsZero(ang_freq)
    THEN Raise(ZDE, "Frequency must be > 0", FALSE)
    ELSE
      LET er_complex_1 == CRealDiv(cond_static,
                                   <<Zero, RMul(ang_freq, Epsilon0)>>)
          temp_base == <<Zero, RMul(ang_freq, relax_time)>>
          er_complex_2 ==
            CRealDiv(RSub(er_static, er_inf),
                     CAdd(<<One, Zero>>,
                          CPower(temp_base, RSub(One, alpha))))
          er_complex == CAdd(CAdd(<<er_inf, Zero>>, er_complex_2),
                             er_complex_1)
      IN  Return("complex", er_complex[1], er_complex[2], FALSE)

\* The loop over zip(relax_times, er_disps) of debye_multipole.
RECURSIVE PoleSum(_, _, _, _)
PoleSum(relax_times, er_disps, ang_freq, i) ==
    IF i > MinInt(Len(relax_times), Len(er_disps))
    THEN <<Zero, Zero>>
    ELSE CAdd(CRealDiv(er_disps[i],
                       <<One, RMul(ang_freq, relax_times[i])>>),
              PoleSum(relax_times, er_disps, ang_freq, i + 1))

\* debye_multipole that compares the lengths after the frequency division.
DebyeMultipoleLengthsLast(freq, er_inf, cond_static, relax_times, er_disps) ==
    LET ang_freq == RMul(RMul(RInt(2), Pi), RMul(freq, Giga)) IN
    IF RIsZero(ang_freq)
    THEN Raise(ZDE, "Frequency must be > 0.", FALSE)
    ELSE IF Len(relax_times) # Len(er_disps)
    THEN Raise("RuntimeError",
               "Need same number of relaxation times and pole amplitudes",
               FALSE)
    ELSE
      LET er_complex_1 == CRealDiv(cond_static,
                                   <<Zero, RMul(ang_freq, Epsilon0)>>)
          er_complex_2 == PoleSum(relax_times, er_disps, ang_freq, 1)
          er_complex == CAdd(CAdd(<<er_inf, Zero>>, er_complex_2),
                             er_complex_1)
      IN  Return("complex", er_complex[1], er_complex[2], FALSE)

\* debye_multipole(freq, er_inf, cond_static, relax_times, er_disps)
DebyeMultipole(freq, er_inf, cond_static, relax_times, er_disps) ==
    IF Len(relax_times) # Len(er_disps)
    THEN Raise("RuntimeError",
               "Need same number of relaxation times and pole amplitudes",
               FALSE)
    ELSE
      LET ang_freq == RMul(RMul(RInt(2), Pi), RMul(freq, Giga)) IN
      IF RIsZero(ang_freq)
      THEN Raise(ZDE, "Frequency must be > 0.", FALSE)
      ELSE
        LET er_complex_1 == CRealDiv(cond_static,
                                     <<Zero, RMul(ang_freq, Epsilon0)>>)
            er_complex_2 == PoleSum(relax_times, er_disps, ang_freq, 1)
            er_complex == CAdd(CAdd(<<er_inf, Zero>>, er_complex_2),
                               er_complex_1)
        IN  Return("complex", er_complex[1], er_complex[2], FALSE)

---------------------------------------------------------------------------
(* propagation.py *)

\* skin_depth with `except ZeroDivisionError` alone around the inversion:
\* numpy's FloatingPointError leaves the function.
SkinDepthUncaught(freq, conductivity, real_permeability, err) ==
    LET delta2 == RMul(RMul(RMul(RMul(Pi, RMul(freq, Giga)), conductivity),
                            Mu0), real_permeability)
    IN
    IF RIsNeg(delta2)
    THEN SqrtInvalid(err,
                     Raise("RuntimeError", "All variables must be > 0", FALSE),
                     FALSE)
    ELSE IF RIsZero(delta2)
    THEN IF err.divide = "raise"
         THEN Raise(FPE, NpMsg("divide"), FALSE)
         ELSE Return("inf", Zero, Zero, FALSE)
    ELSE Return("sqrt", RDiv(One, delta2), Zero, FALSE)

\* skin_depth(freq, conductivity, real_permeability)
SkinDepth(freq, conductivity, real_permeability, err) ==
    LET \* pi * freq * conductivity * mu_0 * real_permeability
        delta2 == RMul(RMul(RMul(RMul(Pi, RMul(freq, Giga)), conductivity),
                            Mu0), real_permeability)
    IN
    \* np.sqrt(delta), before the NaN check and outside the try block
    IF RIsNeg(delta2)
    THEN SqrtInvalid(err,
                     Raise("RuntimeError", "All variables must be > 0", FALSE),
                     FALSE)
    ELSE IF RIsZero(delta2)
    THEN \* 1 / np.float64(0.0): FloatingPointError, caught
         IF err.divide = "raise"
         THEN Raise(ZDE, "Variable values must be > 0", FALSE)
         ELSE Return("inf", Zero, Zero, FALSE)
    ELSE Return("sqrt", RDiv(One, delta2), Zero, FALSE)

\* metal_resistance(freq, conductivity, real_permeability)
MetalResistance(freq, conductivity, real_permeability, err) ==
    LET metal_skin_depth == SkinDepth(freq, conductivity, real_permeability,
                                      err)
        hz == RMul(freq, Giga)
    IN
    IF metal_skin_depth.kind = "exc"
    THEN metal_skin_depth
    ELSE IF RIsZero(hz)
    THEN Raise(ZDE, "Frequency must be > 0", FALSE)
    ELSE IF metal_skin_depth.form = "inf"
    THEN Return("inf", Zero, Zero, FALSE)
    ELSE
      LET wavelength == RDiv(SpeedOfLight, hz)
          \* pi * sqrt(mu_0 / epsilon_0) * (skin depth / wavelength), squared
          resistance2 ==
            RMul(RMul(RSq(Pi), RDiv(Mu0, Epsilon0)),
                 RDiv(metal_skin_depth.val, RSq(wavelength)))
      IN  Return(IF RIsNeg(wavelength) THEN "negsqrt" ELSE "sqrt",
                 resistance2, Zero, FALSE)

\* The exact square root of a rational that is a perfect square.
ISqrt(n) == CHOOSE k \in 0..n : k * k = n
IsSquare(q) ==
    /\ q[1] >= 0
    /\ \E k \in 0..q[1] : k * k = q[1]
    /\ \E k \in 0..q[2] : k * k = q[2]
RSqrt(q) == <<ISqrt(q[1]), ISqrt(q[2])>>

\* plane_wave_prop_const whose common multiplier is mu * epsilon instead of
\* mu * epsilon / 2.
PlaneWavePropConstUnhalved(freq, real_permittivity, imag_permittivity, real_permeability, err) ==
    LET imag == RMul(RAbs(imag_permittivity), Epsilon0)
        real == RMul(real_permittivity, Epsilon0)
        mu == RMul(real_permeability, Mu0)
        ang_freq == RMul(RMul(RInt(2), Pi), RMul(freq, Giga))
        nancheck == Raise("RuntimeError", "All variables must be > 0", FALSE)
    IN
    IF RIsZero(real)
    THEN IF err[IF RIsZero(imag) THEN "invalid" ELSE "divide"] = "raise"
         THEN Raise(ZDE, "Real relative permittivity must be >= 1", FALSE)
         ELSE nancheck
    ELSE
      LET common_root == RSqrt(RAdd(One, RSq(RDiv(imag, real))))
          common_multiplier == RMul(mu, real)
          alpha2 == RMul(common_multiplier, RSub(common_root, One))
          beta2 == RMul(common_multiplier, RAdd(common_root, One))
      IN
      IF RIsNeg(alpha2)
      THEN SqrtInvalid(err, nancheck, FALSE)
      ELSE IF RIsNeg(beta2)
      THEN SqrtInvalid(err, nancheck, FALSE)
      ELSE Return(IF RIsNeg(ang_freq) THEN "negpair" ELSE "pair",
                  RMul(RSq(ang_freq), alpha2),
                  RMul(RSq(ang_freq), beta2), FALSE)

\* plane_wave_prop_const(freq, real_permittivity, imag_permittivity,
\*                       real_permeability)
PlaneWavePropConst(freq, real_permittivity, imag_permittivity, real_permeability, err) ==
    LET imag == RMul(RAbs(imag_permittivity), Epsilon0)
        real == RMul(real_permittivity, Epsilon0)
        mu == RMul(real_permeability, Mu0)
        ang_freq == RMul(RMul(RInt(2), Pi), RMul(freq, Giga))
        nancheck == Raise("RuntimeError", "All variables must be > 0", FALSE)
    IN
    \* imag / real in numpy (imag is an np.float64 after np.abs); the
    \* FloatingPointError is caught with ZeroDivisionError
    IF RIsZero(real)
    THEN IF err[IF RIsZero(imag) THEN "invalid" ELSE "divide"] = "raise"
         THEN Raise(ZDE, "Real relative permittivity must be >= 1", FALSE)
         ELSE nancheck
    ELSE
      LET common_root == RSqrt(RAdd(One, RSq(RDiv(imag, real))))
          common_multiplier == RDiv(RMul(mu, real), RInt(2))
          alpha2 == RMul(common_multiplier, RSub(common_root, One))
          beta2 == RMul(common_multiplier, RAdd(common_root, One))
      IN
      \* alpha = ang_freq * np.sqrt(...), then beta likewise
      IF RIsNeg(alpha2)
      THEN SqrtInvalid(err, nancheck, FALSE)
      ELSE IF RIsNeg(beta2)
      THEN SqrtInvalid(err, nancheck, FALSE)
      ELSE Return(IF RIsNeg(ang_freq) THEN "negpair" ELSE "pair",
                  RMul(RSq(ang_freq), alpha2),
                  RMul(RSq(ang_freq), beta2), FALSE)

---------------------------------------------------------------------------
(* The arguments the calls are made with. *)
Freqs == {RInt(n) : n \in -MaxFreq..MaxFreq}
Nums == {RInt(n) : n \in -MaxNum..MaxNum}
NonNegs == {RInt(n) : n \in 0..MaxNum}

\* A frequency np.isclose takes for zero although it is not zero.
TinyFreq == R(1, 1000000000)

\* Fresnel zone radii: also one well below a wavelength.
Radii == Nums \cup {R(1, 100)}

\* Dipole lengths: negative, zero, below and above a tenth of a wavelength.
Lengths == {R(-1, 10), Zero, R(1, 100), R(1, 10)}

\* Powers in dBm (multiples of 10, so that 10 ** (power / 10) is exact) and
\* in W.
DbmPowers == {RInt(10 * k) : k \in 0..(MaxExp + 1)}
WattPowers == Nums
\* Values in dB for db_to_mag (multiples of 20, exact in both modes).
DbValues == {RInt(20 * k) : k \in -MaxExp..MaxExp}
\* Magnitudes for mag_to_db: negative, zero and exact powers of ten.
MagValues == {RInt(-1), Zero} \cup {Pow10(k) : k \in -MaxExp..MaxExp}

UnitSelectors ==
    { <<"d","B","m">>, <<"D","B","M">>, <<"w">>, <<"W">>, <<"m","W">>, <<>> }
SeparationModes ==
    { S_normal, S_cheeky, <<"C","h","e","e","k","y">>, <<"b","o","g","u","s">> }
AntennaTypes ==
    { S_monopole, S_dipole, S_array, <<"A","r","r","a","y">>,
      <<"D","i","p","o","l","e">>, <<"h","o","r","n">> }
DbModes ==
    { S_power, S_amplitude, <<"P","o","w","e","r">>,
      <<"A","M","P","L","I","T","U","D","E">>, <<"v","o","l","t","a","g","e">> }

\* Values in Np or dB: small integers and a half, and what each conversion
\* makes of them (the arguments of a round trip).
DecValues ==
    {DecInt(n) : n \in -(MaxNum + 1)..(MaxNum + 1)} \cup {Dec(FALSE, <<500>>, 1)}
NeperArguments == DecValues \cup {DbToNepers(x).val : x \in DecValues}
DbArguments == DecValues \cup {NepersToDb(x).val : x \in DecValues}

\* Sequences over S of length at most n.
SeqsUpTo(S, n) == UNION {[1..k -> S] : k \in 0..n}

\* A relaxation time at which ang_freq * relax_time = freq (in GHz).
TauUnit == RDiv(One, RMul(RMul(RInt(2), Pi), Giga))
RelaxTimes == {RMul(RInt(k), TauUnit) : k \in 0..MaxNum}

\* Permittivity parts whose ratio x makes 1 + x**2 a perfect square.
PermParts == {RInt(s * k) : s \in {-1, 1}, k \in {0, 3, 4}}

---------------------------------------------------------------------------
(* The state machine: the module is imported, then its functions are
   called one at a time, in any order, any number of times.  A call is
   synchronous: it starts when no call is under way and the caller takes
   its outcome before the next one starts. *)
Idle == [fn |-> "idle"]

Init ==
    /\ call = Idle
    /\ outcome = NoOutcome
    /\ np_errstate = SetErr

\* The caller takes the value or the exception of the call.
TakeOutcome ==
    /\ call # Idle
    /\ call' = Idle
    /\ outcome' = NoOutcome
    /\ UNCHANGED np_errstate

CallHertzianDipoleCurrent ==
    /\ call = Idle
    /\    \E freq \in Freqs, length \in Lengths, units \in UnitSelectors :
      \E power \in (IF Lower(units) = S_dbm THEN DbmPowers ELSE WattPowers) :
        /\ call' = [fn |-> "hertzian_dipole_current", freq |-> freq,
                    power |-> power, length |-> length, units |-> units]
        /\ outcome' = HertzianDipoleCurrent(freq, power, length, units,
                                            np_errstate)
        /\ UNCHANGED np_errstate

CallMaxAntennaSeparationFull ==
    /\ call = Idle
    /\    \E freq \in Freqs, radius \in Radii, mode \in SeparationModes :
        /\ call' = [fn |-> "max_antenna_separation_full", freq |-> freq,
                    radius |-> radius, mode |-> mode]
        /\ outcome' = MaxAntennaSeparationFull(freq, radius, mode)
        /\ UNCHANGED np_errstate

CallMaxAntennaSeparationApprox ==
    /\ call = Idle
    /\    \E freq \in Freqs, radius \in Radii, mode \in SeparationModes :
        /\ call' = [fn |-> "max_antenna_separation_approx", freq |-> freq,
                    radius |-> radius, mode |-> mode]
        /\ outcome' = MaxAntennaSeparationApprox(freq, radius, mode)
        /\ UNCHANGED np_errstate

CallFresnelZoneRadius ==
    /\ call = Idle
    /\    \E freq \in Freqs, distance_1 \in Nums, distance_2 \in Nums :
        /\ call' = [fn |-> "fresnel_zone_radius", freq |-> freq,
                    distance_1 |-> distance_1, distance_2 |-> distance_2]
        /\ outcome' = FresnelZoneRadius(freq, distance_1, distance_2,
                                        np_errstate)
        /\ UNCHANGED np_errstate

CallFarFieldDistance ==
    /\ call = Idle
    /\    \E freq \in Freqs, antenna_dimension \in Nums,
       antenna_type \in AntennaTypes :
        /\ call' = [fn |-> "far_field_distance", freq |-> freq,
                    antenna_dimension |-> antenna_dimension,
                    antenna_type |-> antenna_type]
        /\ outcome' = FarFieldDistance(freq, antenna_dimension, antenna_type)
        /\ UNCHANGED np_errstate

CallNepersToDb ==
    /\ call = Idle
    /\    \E nepers \in NeperArguments :
        /\ call' = [fn |-> "nepers_to_db", nepers |-> nepers]
        /\ outcome' = NepersToDb(nepers)
        /\ UNCHANGED np_errstate

CallDbToNepers ==
    /\ call = Idle
    /\    \E db \in DbArguments :
        /\ call' = [fn |-> "db_to_nepers", db |-> db]
        /\ outcome' = DbToNepers(db)
        /\ UNCHANGED np_errstate

CallDbToMag ==
    /\ call = Idle
    /\    \E value \in DbValues, mode \in DbModes :
        /\ call' = [fn |-> "db_to_mag", value |-> value, mode |-> mode]
        /\ outcome' = DbToMag(value, mode)
        /\ UNCHANGED np_errstate

CallMagToDb ==
    /\ call = Idle
    /\    \E value \in MagValues, mode \in DbModes :
        /\ call' = [fn |-> "mag_to_db", value |-> value, mode |-> mode]
        /\ outcome' = MagToDb(value, mode, np_errstate)
        /\ UNCHANGED np_errstate

CallConductivityToTanDelta ==
    /\ call = Idle
    /\    \E freq \in Freqs, conductivity \in Nums, real_permittivity \in Nums :
        /\ call' = [fn |-> "conductivity_to_tan_delta", freq |-> freq,
                    conductivity |-> conductivity,
                    real_permittivity |-> real_permittivity]
        /\ outcome' = ConductivityToTanDelta(freq, conductivity,
                                             real_permittivity)
        /\ UNCHANGED np_errstate

CallTanDeltaToConductivity ==
    /\ call = Idle
    /\    \E freq \in Freqs \cup {TinyFreq}, real_permittivity \in Nums,
       tan_delta \in Nums :
        /\ call' = [fn |-> "tan_delta_to_conductivity", freq |-> freq,
                    real_permittivity |-> real_permittivity,
                    tan_delta |-> tan_delta]
        /\ outcome' = TanDeltaToConductivity(freq, real_permittivity,
                                             tan_delta)
        /\ UNCHANGED np_errstate

CallComplexPermittivityToTanDelta ==
    /\ call = Idle
    /\    \E real_permittivity \in Freqs, imag_permittivity \in Freqs :
        /\ call' = [fn |-> "complex_permittivity_to_tan_delta",
                    real_permittivity |-> real_permittivity,
                    imag_permittivity |-> imag_permittivity]
        /\ outcome' = ComplexPermittivityToTanDelta(real_permittivity,
                                                    imag_permittivity,
                                                    np_errstate)
        /\ UNCHANGED np_errstate

CallImaginaryPermittivityToConductivity ==
    /\ call = Idle
    /\    \E freq \in Freqs \cup {TinyFreq}, imag_permittivity \in Nums :
        /\ call' = [fn |-> "imaginary_permittivity_to_conductivity",
                    freq |-> freq, imag_permittivity |-> imag_permittivity]
        /\ outcome' = ImaginaryPermittivityToConductivity(freq,
                                                          imag_permittivity)
        /\ UNCHANGED np_errstate

CallConductivityToImaginaryPermittivity ==
    /\ call = Idle
    /\    \E freq \in Freqs, conductivity \in Nums :
        /\ call' = [fn |-> "conductivity_to_imaginary_permittivity",
                    freq |-> freq, conductivity |-> conductivity]
        /\ outcome' = ConductivityToImaginaryPermittivity(freq, conductivity)
        /\ UNCHANGED np_errstate

CallEquivalentRelativePermittivity ==
    /\ call = Idle
    /\    \E epsilon_real \in SeqsUpTo(Nums, MaxLayers),
       thicknesses \in SeqsUpTo(Nums, MaxLayers) :
        /\ call' = [fn |-> "equivalent_relative_permittivity",
                    epsilon_real |-> epsilon_real,
                    thicknesses |-> thicknesses]
        /\ outcome' = EquivalentRelativePermittivity(epsilon_real,
                                                     thicknesses, np_errstate)
        /\ UNCHANGED np_errstate

CallColeColeSingle ==
    /\ call = Idle
    /\    \E freq \in Freqs, er_static \in NonNegs, er_inf \in NonNegs,
       cond_static \in Nums, relax_time \in RelaxTimes,
       alpha \in {Zero, One} :
        /\ call' = [fn |-> "cole_cole_single", freq |-> freq,
                    er_static |-> er_static, er_inf |-> er_inf,
                    cond_static |-> cond_static, relax_time |-> relax_time,
                    alpha |-> alpha]
        /\ outcome' = ColeColeSingle(freq, er_static, er_inf, cond_static,
                                     relax_time, alpha)
        /\ UNCHANGED np_errstate

CallDebyeMultipole ==
    /\ call = Idle
    /\    \E freq \in Freqs, er_inf \in NonNegs, cond_static \in NonNegs,
       relax_times \in SeqsUpTo(RelaxTimes, MaxLayers),
       er_disps \in SeqsUpTo(NonNegs, MaxLayers) :
        /\ call' = [fn |-> "debye_multipole", freq |-> freq,
                    er_inf |-> er_inf, cond_static |-> cond_static,
                    relax_times |-> relax_times, er_disps |-> er_disps]
        /\ outcome' = DebyeMultipole(freq, er_inf, cond_static, relax_times,
                                     er_disps)
        /\ UNCHANGED np_errstate

CallSkinDepth ==
    /\ call = Idle
    /\    \E freq \in Freqs, conductivity \in Nums, real_permeability \in Nums :
        /\ call' = [fn |-> "skin_depth", freq |-> freq,
                    conductivity |-> conductivity,
                    real_permeability |-> real_permeability]
        /\ outcome' = SkinDepth(freq, conductivity, real_permeability,
                                np_errstate)
        /\ UNCHANGED np_errstate

CallMetalResistance ==
    /\ call = Idle
    /\    \E freq \in Freqs, conductivity \in Nums, real_permeability \in Nums :
        /\ call' = [fn |-> "metal_resistance", freq |-> freq,
                    conductivity |-> conductivity,
                    real_permeability |-> real_permeability]
        /\ outcome' = MetalResistance(freq, conductivity, real_permeability,
                                      np_errstate)
        /\ UNCHANGED np_errstate

CallPlaneWavePropConst ==
    /\ call = Idle
    /\    \E freq \in Freqs, real_permittivity \in PermParts,
       imag_permittivity \in PermParts, real_permeability \in Nums :
        /\ IF RIsZero(real_permittivity)
           THEN TRUE
           ELSE IsSquare(RAdd(One, RSq(RDiv(imag_permittivity,
                                            real_permittivity))))
        /\ call' = [fn |-> "plane_wave_prop_const", freq |-> freq,
                    real_permittivity |-> real_permittivity,
                    imag_permittivity |-> imag_permittivity,
                    real_permeability |-> real_permeability]
        /\ outcome' = PlaneWavePropConst(freq, real_permittivity,
                                         imag_permittivity, real_permeability,
                                         np_errstate)
        /\ UNCHANGED np_errstate

Next ==
    \/ TakeOutcome
    \/ CallHertzianDipoleCurrent
    \/ CallMaxAntennaSeparationFull
    \/ CallMaxAntennaSeparationApprox
    \/ CallFresnelZoneRadius
    \/ CallFarFieldDistance
    \/ CallNepersToDb
    \/ CallDbToNepers
    \/ CallDbToMag
    \/ CallMagToDb
    \/ CallConductivityToTanDelta
    \/ CallTanDeltaToConductivity
    \/ CallComplexPermittivityToTanDelta
    \/ CallImaginaryPermittivityToConductivity
    \/ CallConductivityToImaginaryPermittivity
    \/ CallEquivalentRelativePermittivity
    \/ CallColeColeSingle
    \/ CallDebyeMultipole
    \/ CallSkinDepth
    \/ CallMetalResistance
    \/ CallPlaneWavePropConst

Spec == Init /\ [][Next]_vars

---------------------------------------------------------------------------
(* Calls from several threads.  numpy keeps its error configuration per
   thread: np.seterr at import configures the importing thread, and every
   other thread computes under numpy's defaults.  Under this specification
   call and outcome hold one entry per thread, a call begins and finishes in
   separate steps, and the steps of the threads interleave freely. *)
Threads == {"importer", "worker"}

\* numpy's defaults for the two kinds of error the library sets to 'raise'.
NumpyDefaults == [divide |-> "warn", invalid |-> "warn"]

\* The error configuration a call made in thread t computes under.
ErrOf(t) == IF t = "importer" THEN np_errstate ELSE NumpyDefaults

\* The calls the threads make.
ThreadCalls ==
    {[fn |-> "mag_to_db", value |-> value, mode |-> mode] :
       value \in MagValues,
       mode \in {S_power, S_amplitude, <<"v","o","l","t","a","g","e">>}}
    \cup
    {[fn |-> "complex_permittivity_to_tan_delta",
      real_permittivity |-> re, imag_permittivity |-> im] :
       re \in Nums, im \in Nums}
    \cup
    {[fn |-> "equivalent_relative_permittivity",
      epsilon_real |-> epsilon_real, thicknesses |-> thicknesses] :
       epsilon_real \in SeqsUpTo(NonNegs, MaxLayers),
       thicknesses \in SeqsUpTo(NonNegs, MaxLayers)}
    \cup
    {[fn |-> "skin_depth", freq |-> One, conductivity |-> conductivity,
      real_permeability |-> real_permeability] :
       conductivity \in Nums, real_permeability \in Nums}

\* The outcome of the call c under the error configuration err.
OutcomeOf(c, err) ==
    CASE c.fn = "mag_to_db" -> MagToDb(c.value, c.mode, err)
      [] c.fn = "complex_permittivity_to_tan_delta" ->
           ComplexPermittivityToTanDelta(c.real_permittivity,
                                         c.imag_permittivity, err)
      [] c.fn = "equivalent_relative_permittivity" ->
           EquivalentRelativePermittivity(c.epsilon_real, c.thicknesses, err)
      [] c.fn = "skin_depth" ->
           SkinDepth(c.freq, c.conductivity, c.real_permeability, err)

InitThreads ==
    /\ call = [t \in Threads |-> Idle]
    /\ outcome = [t \in Threads |-> NoOutcome]
    /\ np_errstate = SetErr

\* Thread t enters a function: the arguments are bound to its parameters.
BeginCall(t) ==
    /\ call[t] = Idle
    /\ \E c \in ThreadCalls : call' = [call EXCEPT ![t] = c]
    /\ UNCHANGED <<outcome, np_errstate>>

\* The body runs to its return or raise.  It assigns to local names only:
\* no function sets numpy's error configuration or stores into an argument
\* (np.sum and zip read the sequences).
FinishCall(t) ==
    /\ call[t] # Idle
    /\ outcome[t] = NoOutcome
    /\ outcome' = [outcome EXCEPT ![t] = OutcomeOf(call[t], ErrOf(t))]
    /\ UNCHANGED <<call, np_errstate>>

\* The caller in thread t takes the value or the exception.
TakeThreadOutcome(t) ==
    /\ outcome[t] # NoOutcome
    /\ call' = [call EXCEPT ![t] = Idle]
    /\ outcome' = [outcome EXCEPT ![t] = NoOutcome]
    /\ UNCHANGED np_errstate

NextThreads ==
    \E t \in Threads :
      \/ BeginCall(t)
      \/ FinishCall(t)
      \/ TakeThreadOutcome(t)

SpecThreads == InitThreads /\ [][NextThreads]_vars

---------------------------------------------------------------------------
(* Vocabulary of the properties. *)
Calls(fn) == call.fn = fn
Returned == outcome.kind = "ret"
Raised(exc) == outcome.kind = "exc" /\ outcome.exc = exc
RaisedWith(exc, msg) == Raised(exc) /\ outcome.msg = msg
RIsPos(a) == a[1] > 0

\* The functions that divide by the frequency or by the wavelength.
FrequencyDividers ==
    { "hertzian_dipole_current", "max_antenna_separation_full",
      "max_antenna_separation_approx", "fresnel_zone_radius",
      "far_field_distance", "conductivity_to_tan_delta",
      "conductivity_to_imaginary_permittivity", "cole_cole_single",
      "debye_multipole", "skin_depth", "metal_resistance" }

\* The arguments other than the frequency are valid: recognised selectors,
\* positive quantities where the formula divides by them or takes their
\* root, non-negative material constants, sequences of equal length.
OtherArgumentsValid ==
    CASE Calls("hertzian_dipole_current") ->
           /\ Lower(call.units) \in {S_dbm, S_w}
           /\ Lower(call.units) = S_w => RIsPos(call.power)
           /\ RIsPos(call.length)
      [] Calls("fresnel_zone_radius") ->
           RIsPos(call.distance_1) /\ RIsPos(call.distance_2)
      [] Calls("conductivity_to_tan_delta") ->
           ~RIsNeg(call.conductivity) /\ RIsPos(call.real_permittivity)
      [] Calls("conductivity_to_imaginary_permittivity") ->
           ~RIsNeg(call.conductivity)
      [] Calls("cole_cole_single") -> ~RIsNeg(call.cond_static)
      [] Calls("debye_multipole") ->
           Len(call.relax_times) = Len(call.er_disps)
      [] Calls("skin_depth") \/ Calls("metal_resistance") ->
           RIsPos(call.conductivity) /\ RIsPos(call.real_permeability)
      [] OTHER -> TRUE

\* The radius the separation formulas use, and their wavelength.
WavelengthOfCall == RDiv(SpeedOfLight, RMul(call.freq, Giga))
TargetRadius ==
    IF Lower(call.mode) = S_cheeky
    THEN RDiv(call.radius, R(6, 10))
    ELSE call.radius
FullNumerator ==
    RSub(RMul(RInt(16), RSq(TargetRadius)), RSq(WavelengthOfCall))

---------------------------------------------------------------------------
(* C1 *)

---------------------------------------------------------------------------
(* C2 *)

\* The selector of the call matches none of the values its function names.
SelectorUnmatched ==
    CASE Calls("hertzian_dipole_current") ->
           Lower(call.units) \notin {S_dbm, S_w}
      [] Calls("db_to_mag") \/ Calls("mag_to_db") ->
           Lower(call.mode) \notin {S_power, S_amplitude}
      [] Calls("max_antenna_separation_full")
           \/ Calls("max_antenna_separation_approx") ->
           Lower(call.mode) \notin {S_normal, S_cheeky}
      [] Calls("far_field_distance") ->
           Lower(call.antenna_type) \notin {S_monopole, S_dipole, S_array}
      [] OTHER -> FALSE

\* C2, as stated: a selector that matches none of the enumerated values,
\* compared case-insensitively, makes the call fail with an error.
C2_AsStated == SelectorUnmatched => outcome.kind = "exc"

\* C2, amended: an unmatched selector is an error in hertzian_dipole_current
\* (RuntimeError) and in db_to_mag and mag_to_db (ValueError), and a selector
\* in another letter case is not.  max_antenna_separation_full and _approx
\* compute every mode other than 'cheeky' as 'normal', and
\* far_field_distance uses antenna_dimension itself for an unmatched
\* antenna_type: with a nonzero frequency they return that result.
C2_SelectorsOfThreeFunctionsRejected ==
    /\ Calls("hertzian_dipole_current") =>
         (SelectorUnmatched
            <=> RaisedWith("RuntimeError", "Unsupported power units"))
    /\ (Calls("db_to_mag") \/ Calls("mag_to_db")) =>
         (SelectorUnmatched
            <=> RaisedWith("ValueError", "Mode must be power or amplitude"))
    /\ (Calls("max_antenna_separation_full") /\ SelectorUnmatched
          /\ ~RIsZero(call.freq)) =>
         /\ Returned
         /\ RMul(outcome.val, RMul(RInt(4), WavelengthOfCall))
              = RSub(RMul(RInt(16), RSq(call.radius)), RSq(WavelengthOfCall))
    /\ (Calls("max_antenna_separation_approx") /\ SelectorUnmatched
          /\ ~RIsZero(call.freq)) =>
         /\ Returned
         /\ RMul(outcome.val, WavelengthOfCall)
              = RMul(RInt(4), RSq(call.radius))
    /\ (Calls("far_field_distance") /\ SelectorUnmatched
          /\ ~RIsZero(call.freq)) =>
         /\ Returned
         /\ RMul(outcome.val, WavelengthOfCall)
              = RMul(RInt(2), RSq(call.antenna_dimension))

C2_Witness ==
    /\ Calls("db_to_mag")
    /\ SelectorUnmatched
    /\ RaisedWith("ValueError", "Mode must be power or amplitude")

---------------------------------------------------------------------------
(* C3 *)

\* C3, as stated: each of the four conversions ends in ValueError when its
\* permittivity or its conductivity argument is negative, for a nonzero
\* frequency.
C3_AsStated ==
    /\ (Calls("conductivity_to_tan_delta") /\ ~RIsZero(call.freq)
          /\ (RIsNeg(call.real_permittivity) \/ RIsNeg(call.conductivity)))
         => Raised("ValueError")
    /\ (Calls("tan_delta_to_conductivity") /\ ~RIsZero(call.freq)
          /\ RIsNeg(call.real_permittivity))
         => Raised("ValueError")
    /\ (Calls("imaginary_permittivity_to_conductivity")
          /\ ~RIsZero(call.freq) /\ RIsNeg(call.imag_permittivity))
         => Raised("ValueError")
    /\ (Calls("conductivity_to_imaginary_permittivity")
          /\ ~RIsZero(call.freq) /\ RIsNeg(call.conductivity))
         => Raised("ValueError")

\* C3, amended: conductivity_to_tan_delta ends in ValueError whenever its
\* permittivity or its conductivity is negative, and
\* tan_delta_to_conductivity whenever its permittivity is negative, for
\* every frequency.  The other two do not test the sign:
\* imaginary_permittivity_to_conductivity returns
\* 0.05563 * freq * |imag_permittivity| for a frequency np.isclose does not
\* take for zero, and conductivity_to_imaginary_permittivity returns
\* 17.97591 * conductivity / freq for a nonzero frequency.
C3_SignTestedByTwoConversions ==
    /\ (Calls("conductivity_to_tan_delta")
          /\ (RIsNeg(call.real_permittivity) \/ RIsNeg(call.conductivity)))
         => Raised("ValueError")
    /\ (Calls("tan_delta_to_conductivity")
          /\ RIsNeg(call.real_permittivity))
         => Raised("ValueError")
    /\ (Calls("imaginary_permittivity_to_conductivity")
          /\ RIsNeg(call.imag_permittivity))
         => IF RLe(RAbs(call.freq), R(1, 100000000))
            THEN Raised(ZDE)
            ELSE /\ Returned
                 /\ outcome.val = RMul(RMul(R(5563, 100000), call.freq),
                                       RNeg(call.imag_permittivity))
    /\ (Calls("conductivity_to_imaginary_permittivity")
          /\ RIsNeg(call.conductivity))
         => IF RIsZero(call.freq)
            THEN Raised(ZDE)
            ELSE /\ Returned
                 /\ RMul(outcome.val, call.freq)
                      = RMul(R(1797591, 100000), call.conductivity)

C3_Witness ==
    /\ Calls("conductivity_to_tan_delta")
    /\ ~RIsZero(call.freq)
    /\ RIsNeg(call.conductivity)
    /\ RIsPos(call.real_permittivity)
    /\ Raised("ValueError")

---------------------------------------------------------------------------
(* C4 *)

\* C4: debye_multipole with relax_times and er_disps of different lengths
\* ends in RuntimeError whatever the other arguments are; with freq = 0 too
\* the outcome is that error and not the ZeroDivisionError of the frequency.
C4_LengthsComparedFirst ==
    (Calls("debye_multipole")
       /\ Len(call.relax_times) # Len(call.er_disps))
    => RaisedWith("RuntimeError",
                  "Need same number of relaxation times and pole amplitudes")

C4_Witness ==
    /\ Calls("debye_multipole")
    /\ Len(call.relax_times) = 2
    /\ Len(call.er_disps) = 1
    /\ RIsZero(call.freq)
    /\ Raised("RuntimeError")

---------------------------------------------------------------------------
(* C5 *)

\* The call takes the square root of a negative number: a negative power in
\* W with a frequency and a length that let the division happen; a negative
\* product freq * conductivity * real_permeability; a negative
\* real_permeability * real_permittivity, which makes the term under the
\* root of beta negative.
RootOfNegative ==
    CASE Calls("hertzian_dipole_current") ->
           /\ Lower(call.units) = S_w
           /\ RIsNeg(call.power)
           /\ ~RIsZero(call.freq)
           /\ ~RIsZero(call.length)
      [] Calls("skin_depth") ->
           RIsNeg(RMul(RMul(call.freq, call.conductivity),
                       call.real_permeability))
      [] Calls("plane_wave_prop_const") ->
           RIsNeg(RMul(call.real_permeability, call.real_permittivity))
      [] OTHER -> FALSE

\* C5, as stated: whenever the argument of a square root is negative in
\* hertzian_dipole_current, skin_depth or plane_wave_prop_const, the call
\* ends in the RuntimeError of the function's own NaN check.
C5_AsStated == RootOfNegative => Raised("RuntimeError")

---------------------------------------------------------------------------
(* C6 *)

\* C6, as stated: complex_permittivity_to_tan_delta ends in
\* ZeroDivisionError when the real part is 0, whatever the imaginary part,
\* and returns |imag| / |real| otherwise.
C6_AsStated ==
    Calls("complex_permittivity_to_tan_delta") =>
      IF RIsZero(call.real_permittivity)
      THEN Raised(ZDE)
      ELSE /\ Returned
           /\ RMul(outcome.val, RAbs(call.real_permittivity))
                = RAbs(call.imag_permittivity)

---------------------------------------------------------------------------
(* C7 *)

\* The number of (permittivity, thickness) pairs the loop visits.
PairsOfCall == MinInt(Len(call.epsilon_real), Len(call.thicknesses))

\* sum of t_i / (eps_i * total) over the pairs, when no divisor is zero.
RECURSIVE TermSum(_, _, _, _)
TermSum(eps, th, total, i) ==
    IF i = 0
    THEN Zero
    ELSE RAdd(TermSum(eps, th, total, i - 1),
              RDiv(th[i], RMul(eps[i], total)))

\* One of the three cases of C7: the thicknesses sum to 0, a layer's
\* permittivity is 0, or the accumulated sum is 0 (two empty sequences
\* included).
DegenerateLayers ==
    \/ RIsZero(SumSeq(call.thicknesses))
    \/ \E i \in 1..PairsOfCall : RIsZero(call.epsilon_real[i])
    \/ RIsZero(TermSum(call.epsilon_real, call.thicknesses,
                       SumSeq(call.thicknesses), PairsOfCall))

\* C7, as stated: in each of the three cases
\* equivalent_relative_permittivity ends in ZeroDivisionError.
C7_AsStated ==
    (Calls("equivalent_relative_permittivity") /\ DegenerateLayers)
    => Raised(ZDE)

---------------------------------------------------------------------------
(* C8 *)

ModeRecognised == Lower(call.mode) \in {S_power, S_amplitude}
DbFactor == IF Lower(call.mode) = S_power THEN RInt(10) ELSE RInt(20)

\* C8, as stated: with a recognised mode and value <= 0, mag_to_db ends in
\* an error of another kind than the ValueError of an unrecognised mode;
\* with value > 0 it returns 10 * log10(value) or 20 * log10(value).
C8_AsStated ==
    (Calls("mag_to_db") /\ ModeRecognised) =>
      IF RLe(call.value, Zero)
      THEN outcome.kind = "exc" /\ outcome.exc # "ValueError"
      ELSE /\ Returned
           /\ FloatPower10(RDiv(outcome.val, DbFactor)) = call.value

\* C8, amended: with a recognised mode and value <= 0, mag_to_db ends in
\* ValueError, the class it also raises for an unrecognised mode; the two
\* differ in their message alone.  With value > 0 it returns
\* 10 * log10(value) or 20 * log10(value).
C8_SameErrorClass ==
    Calls("mag_to_db") =>
      IF ~ModeRecognised
      THEN RaisedWith("ValueError", "Mode must be power or amplitude")
      ELSE IF RLe(call.value, Zero)
      THEN RaisedWith("ValueError", "Magnitude must be > 0")
      ELSE /\ Returned
           /\ FloatPower10(RDiv(outcome.val, DbFactor)) = call.value

C8_Witness ==
    /\ Calls("mag_to_db")
    /\ ModeRecognised
    /\ RIsZero(call.value)
    /\ RaisedWith("ValueError", "Magnitude must be > 0")

---------------------------------------------------------------------------
(* C9 *)

\* C9, as stated: a call of hertzian_dipole_current that emits the warning
\* returns a current.
C9_AsStated ==
    (Calls("hertzian_dipole_current") /\ outcome.warned) => Returned

\* C9, amended: the warning is emitted exactly when the length check is
\* reached with length > wavelength / 10, and a call that emits it returns
\* a current when the frequency is positive and the power is in dBm or
\* positive.
C9_WarningThenCurrent ==
    Calls("hertzian_dipole_current") =>
      /\ outcome.warned <=>
           /\ Lower(call.units) \in {S_dbm, S_w}
           /\ Lower(call.units) = S_w => ~RIsZero(call.power)
           /\ ~RIsZero(call.freq)
           /\ RLt(RDiv(WavelengthOfCall, RInt(10)), call.length)
      /\ (/\ outcome.warned
          /\ RIsPos(call.freq)
          /\ Lower(call.units) = S_w => RIsPos(call.power))
         => Returned /\ outcome.form = "sqrt"

C9_Witness ==
    /\ Calls("hertzian_dipole_current")
    /\ outcome.warned
    /\ RIsPos(call.freq)
    /\ Returned

---------------------------------------------------------------------------
(* C10 *)

\* C10, as stated: for a nonzero frequency both separation functions return
\* a value; when 16 r^2 < wavelength^2 the full formula returns
\* (16 r^2 - wavelength^2) / (4 wavelength), a negative value, with
\* r = radius / 0.6 in 'cheeky' mode and r = radius otherwise.
C10_AsStated ==
    /\ (Calls("max_antenna_separation_approx") /\ ~RIsZero(call.freq))
         => Returned
    /\ (Calls("max_antenna_separation_full") /\ ~RIsZero(call.freq))
         => /\ Returned
            /\ RIsNeg(FullNumerator) =>
                 /\ RMul(outcome.val, RMul(RInt(4), WavelengthOfCall))
                      = FullNumerator
                 /\ RIsNeg(outcome.val)

\* C10, amended: for a nonzero frequency both functions return a value,
\* (16 r^2 - wavelength^2) / (4 wavelength) and 4 r^2 / wavelength, with
\* r = radius / 0.6 in 'cheeky' mode and r = radius otherwise; when
\* 16 r^2 < wavelength^2 the full value is returned unchanged, and it is
\* negative for a positive frequency and positive for a negative one (the
\* wavelength has the sign of the frequency).
C10_SeparationReturnedUnchanged ==
    /\ (Calls("max_antenna_separation_approx") /\ ~RIsZero(call.freq))
         => /\ Returned
            /\ RMul(outcome.val, WavelengthOfCall)
                 = RMul(RInt(4), RSq(TargetRadius))
    /\ (Calls("max_antenna_separation_full") /\ ~RIsZero(call.freq))
         => /\ Returned
            /\ RMul(outcome.val, RMul(RInt(4), WavelengthOfCall))
                 = FullNumerator
            /\ RIsNeg(FullNumerator) =>
                 IF RIsPos(call.freq)
                 THEN RIsNeg(outcome.val)
                 ELSE RIsPos(outcome.val)

C10_Witness ==
    /\ Calls("max_antenna_separation_full")
    /\ Lower(call.mode) = S_cheeky
    /\ RIsPos(call.freq)
    /\ RIsPos(call.radius)
    /\ RIsNeg(FullNumerator)
    /\ Returned
    /\ RIsNeg(outcome.val)

---------------------------------------------------------------------------
(* C11 *)

\* omega, epsilon and mu of a plane_wave_prop_const call.
OmegaOfCall == RMul(RMul(RInt(2), Pi), RMul(call.freq, Giga))
EpsOfCall == RMul(call.real_permittivity, Epsilon0)
MuOfCall == RMul(call.real_permeability, Mu0)

\* C11: every call of plane_wave_prop_const with imag_permittivity = 0 that
\* returns yields alpha = 0 and beta = omega * sqrt(mu * eps) (the returned
\* pair is read as roots carrying the sign of omega, so beta squared is
\* omega^2 * mu * eps and beta has the sign of omega); with
\* real_permittivity = 0 the call fails with ZeroDivisionError instead.
C11_LosslessMedium ==
    (Calls("plane_wave_prop_const") /\ RIsZero(call.imag_permittivity))
      => /\ Returned =>
              /\ outcome.val = Zero
              /\ outcome.val2
                   = RMul(RSq(OmegaOfCall), RMul(MuOfCall, EpsOfCall))
              /\ ~RIsNeg(RMul(MuOfCall, EpsOfCall))
              /\ outcome.form
                   = (IF RIsNeg(OmegaOfCall) THEN "negpair" ELSE "pair")
         /\ RIsZero(call.real_permittivity)
              => RaisedWith(ZDE, "Real relative permittivity must be >= 1")

C11_Witness ==
    /\ Calls("plane_wave_prop_const")
    /\ RIsZero(call.imag_permittivity)
    /\ RIsPos(call.freq)
    /\ RIsPos(call.real_permittivity)
    /\ RIsPos(call.real_permeability)
    /\ Returned
    /\ outcome.val = Zero
    /\ RIsPos(outcome.val2)

---------------------------------------------------------------------------
(* C12 *)

\* C12, as stated: nepers_to_db and db_to_nepers never fail and are exact
\* inverses: nepers_to_db(db_to_nepers(x)) = x and
\* db_to_nepers(nepers_to_db(x)) = x.
C12_AsStated ==
    /\ Calls("nepers_to_db") =>
         /\ Returned
         /\ \A x \in DecValues :
              call.nepers = DbToNepers(x).val => outcome.val = x
    /\ Calls("db_to_nepers") =>
         /\ Returned
         /\ \A x \in DecValues :
              call.db = NepersToDb(x).val => outcome.val = x

\* 8.685889638 * 0.115129255
RoundTripFactor == Dec(FALSE, <<690, 159, 35, 3, 0, 0, 1>>, 6)

\* C12, amended: neither function fails, and a round trip in either order
\* multiplies x by 8.685889638 * 0.115129255 = 1.00000000303515969, so it
\* gives x back only for x = 0.
C12_RoundTripScales ==
    /\ Calls("nepers_to_db") =>
         /\ Returned
         /\ \A x \in DecValues :
              call.nepers = DbToNepers(x).val =>
                /\ outcome.val = DecMul(x, RoundTripFactor)
                /\ (outcome.val = x) <=> DecIsZero(x)
    /\ Calls("db_to_nepers") =>
         /\ Returned
         /\ \A x \in DecValues :
              call.db = NepersToDb(x).val =>
                /\ outcome.val = DecMul(x, RoundTripFactor)
                /\ (outcome.val = x) <=> DecIsZero(x)

C12_Witness ==
    /\ Calls("nepers_to_db")
    /\ call.nepers = DbToNepers(DecInt(1)).val
    /\ Returned
    /\ outcome.val = RoundTripFactor

---------------------------------------------------------------------------
(* C13 *)

\* Thread t has a call whose outcome its caller has not taken yet.
Finished(t) == call[t] # Idle /\ outcome[t] # NoOutcome

\* C13, as stated: whatever calls have been made, in any interleaving, the
\* error configuration is the one set at module load, an argument of a call
\* is not changed while the call runs, and the outcome of a call is a
\* function of its arguments alone: two calls with the same arguments have
\* the same outcome, whatever ran before or runs beside them.
C13_AsStated ==
    /\ [](/\ np_errstate = SetErr
          /\ \A t1 \in Threads, t2 \in Threads :
               (Finished(t1) /\ Finished(t2) /\ call[t1] = call[t2])
                 => outcome[t1] = outcome[t2])
    /\ [][\A t \in Threads :
            (call[t] # Idle /\ call'[t] # Idle) => call'[t] = call[t]]_vars

---------------------------------------------------------------------------
(* C14 *)

\* C14: when a call violates several input conditions at once, the error
\* of the first check is the one reported: mag_to_db reports the
\* unrecognised mode before the non-positive value; hertzian_dipole_current
\* reports unsupported units or zero 'W' power before zero frequency, and
\* zero frequency before zero length; conductivity_to_tan_delta reports a
\* negative permittivity or conductivity (ValueError) before a zero
\* frequency or zero permittivity (ZeroDivisionError);
\* tan_delta_to_conductivity reports negative permittivity before zero
\* frequency.
C14_FirstCheckReported ==
    /\ (Calls("mag_to_db") /\ ~ModeRecognised /\ RLe(call.value, Zero))
         => RaisedWith("ValueError", "Mode must be power or amplitude")
    /\ Calls("hertzian_dipole_current") =>
         LET u == Lower(call.units)
             later == RIsZero(call.freq) \/ RIsZero(call.length)
         IN
         /\ (u # S_dbm /\ u # S_w /\ later)
              => RaisedWith("RuntimeError", "Unsupported power units")
         /\ (u = S_w /\ RIsZero(call.power) /\ later)
              => RaisedWith(ZDE, "Power in absolute units must be > 0")
         /\ (/\ u \in {S_dbm, S_w}
             /\ ~(u = S_w /\ RIsZero(call.power))
             /\ RIsZero(call.freq)
             /\ RIsZero(call.length))
              => RaisedWith(ZDE, "Frequency must be > 0")
    /\ (/\ Calls("conductivity_to_tan_delta")
        /\ RIsNeg(call.real_permittivity) \/ RIsNeg(call.conductivity)
        /\ RIsZero(call.freq) \/ RIsZero(call.real_permittivity))
         => Raised("ValueError")
    /\ (/\ Calls("tan_delta_to_conductivity")
        /\ RIsNeg(call.real_permittivity)
        /\ RIsZero(call.freq))
         => RaisedWith("ValueError",
                       "The real part of the permittivity must be positive")

C14_Witness ==
    /\ Calls("hertzian_dipole_current")
    /\ Lower(call.units) = S_w
    /\ RIsZero(call.power)
    /\ RIsZero(call.freq)
    /\ RIsZero(call.length)
    /\ RaisedWith(ZDE, "Power in absolute units must be > 0")

---------------------------------------------------------------------------
(* C15 *)

\* What the two separation functions return for the frequency and mode of
\* the call under way and the radius given.
ApproxFor(radius) ==
    MaxAntennaSeparationApprox(call.freq, radius, call.mode).val
FullFor(radius) ==
    MaxAntennaSeparationFull(call.freq, radius, call.mode).val
\* (approx - full) / approx
RelativeDifference(radius) ==
    RDiv(RSub(ApproxFor(radius), FullFor(radius)), ApproxFor(radius))

---------------------------------------------------------------------------
(* C16 *)

\* C16: equivalent_relative_permittivity never rejects sequences of
\* different lengths: it pairs epsilon_real[i] with thicknesses[i] for i up
\* to the shorter length and leaves the other elements out of the sum of
\* terms, while the total thickness in every term is the sum of all of
\* thicknesses, unpaired elements included; when no division by zero occurs
\* it returns 1 / (sum of the terms), and otherwise the error is the
\* division's (ZeroDivisionError or numpy's FloatingPointError).
C16_ShorterLengthPaired ==
    Calls("equivalent_relative_permittivity") =>
      IF DegenerateLayers
      THEN Raised(ZDE) \/ Raised(FPE)
      ELSE /\ Returned
           /\ RMul(outcome.val,
                   TermSum(call.epsilon_real, call.thicknesses,
                           SumSeq(call.thicknesses), PairsOfCall))
                = One

C16_Witness ==
    /\ Calls("equivalent_relative_permittivity")
    /\ Len(call.epsilon_real) < Len(call.thicknesses)
    /\ PairsOfCall > 0
    /\ \A i \in 1..Len(call.thicknesses) : RIsPos(call.thicknesses[i])
    /\ Returned
    /\ outcome.val
         # EquivalentRelativePermittivity(
             call.epsilon_real,
             SubSeq(call.thicknesses, 1, PairsOfCall), np_errstate).val

=============================================================================
